---------------------------- MODULE Spec2Model ----------------------------
(***************************************************************************)
(* Model of sparse_autoencoder/src_model/src_data.py: the two collate      *)
(* functions and the streaming loader built by create_dataloader           *)
(* (load_dataset(streaming=True) -> IterableDataset.shuffle -> DataLoader).*)
(***************************************************************************)
EXTENDS Integers, Sequences, FiniteSets, TLC

\* ------------------------------------------------------------------ bounds
MaxBatch == 2       \* largest batch_size / longest batch handed to a collator
MaxLen == 2         \* longest "tokens" / "text" sequence of a record
MaxToken == 2       \* token ids and words are drawn from 1..MaxToken
MaxRecords == 3     \* records of the remote stream
MaxShards == 2      \* shards of the remote stream
MaxWorkers == 2     \* num_workers ranges over 0..MaxWorkers
MaxBuf == 2         \* shuffle_buffer_size ranges over 1..MaxBuf

\* ------------------------------------------------------- program constants
MaxLength == 512    \* max_length=512 in collate_pile
DefaultSeed == 0    \* random_seed: int = 0
PrefetchFactor == 2 \* DataLoader's default prefetch_factor (not overridden)

VARIABLES
    fn,               \* collator last called ("none" before any call)
    batch,            \* its batch argument
    tokenizer,        \* the tokenizer bound to collate_pile
    tokenizer_calls,  \* calls the last collate_pile made to the tokenizer
    returned,         \* what the last collator call returned (or the error it raised)
    cfg,              \* arguments of create_dataloader
    hub,              \* the remote dataset: its shards, each a sequence of records
    pc,               \* "init" | "created" | "iterating" | "exhausted" | "error"
    error,            \* the exception create_dataloader raised ("none" if none)
    run,              \* 1 for the first loader, 2 for a second one with the same arguments
    prev_out,         \* the batches the first loader yielded
    rng,              \* what the generator seeded with each seed has drawn so far
    dataset_iter,     \* per worker: the shuffled iterator and the batch fetcher over it
    iteration_end,    \* per worker: the worker loop's iteration_end flag
    index_queues,     \* per worker: indices sent by the main process, not yet handled
    data_queue,       \* (idx, data) messages from the workers to the main process
    task_info,        \* per sent idx: the worker it went to, and its data once received
    send_idx,         \* idx of the next task to send
    rcvd_idx,         \* idx of the next task to hand to the consumer
    workers_status,   \* per worker: still considered active by the main process
    worker_cycle,     \* next value of the round-robin worker_queue_idx_cycle
    out,              \* batches the consumer has received, in order
    out_worker        \* for each of them, the worker that built it

collate_vars == <<fn, batch, tokenizer, tokenizer_calls, returned>>
loader_vars == <<cfg, hub, pc, error, run, prev_out, rng, dataset_iter, iteration_end,
                 index_queues, data_queue, task_info, send_idx, rcvd_idx,
                 workers_status, worker_cycle, out, out_worker>>
vars == <<fn, batch, tokenizer, tokenizer_calls, returned,
          cfg, hub, pc, error, run, prev_out, rng, dataset_iter, iteration_end,
          index_queues, data_queue, task_info, send_idx, rcvd_idx,
          workers_status, worker_cycle, out, out_worker>>

\* ----------------------------------------------------------------- helpers
SeqsUpTo(S, n) == UNION {[1..k -> S] : k \in 0..n}

RECURSIVE Concat(_)
Concat(ss) == IF ss = <<>> THEN <<>> ELSE Head(ss) \o Concat(Tail(ss))

IsPrefix(s, t) == Len(s) <= Len(t) /\ SubSeq(t, 1, Len(s)) = s

MaxOf(S) == CHOOSE m \in S : \A x \in S : x <= m

\* ----------------------------------------------------------------- tensors
\* A tensor is [shape, data]; a failed construction is [error].
ValueError == [error |-> "ValueError"]

IsError(t) == "error" \in DOMAIN t

\* A call either returns a value or raises an exception.
Return(v) == [raised |-> "none", value |-> v]

Raise(e) == [raised |-> e, value |-> <<>>]

\* torch.tensor(nested list of ints).  The sizes are read off the list and its
\* first row: an empty list gives a 1-D tensor of shape (0,).  A tensor with no
\* elements is returned as allocated, the rows are not visited: when the first
\* row is empty the result has shape (n, 0) whatever the other rows hold.
\* Otherwise the rows are stored one by one, and a row whose length is not the
\* first row's raises ValueError.
TorchTensor(rows) ==
    IF rows = <<>> THEN [shape |-> <<0>>, data |-> <<>>]
    ELSE IF rows[1] = <<>>
         THEN [shape |-> <<Len(rows), 0>>, data |-> [i \in 1..Len(rows) |-> <<>>]]
         ELSE IF \A i \in 1..Len(rows) : Len(rows[i]) = Len(rows[1])
              THEN [shape |-> <<Len(rows), Len(rows[1])>>, data |-> rows]
              ELSE ValueError

\* torch.ones_like filling with zeros instead (faulty variant).
ZerosLike(t) ==
    [shape |-> t.shape,
     data |-> [i \in 1..Len(t.data) |-> [j \in 1..Len(t.data[i]) |-> 0]]]

\* torch.ones_like(t): the shape of t, every entry 1.
OnesLike(t) ==
    [shape |-> t.shape,
     data |-> [i \in 1..Len(t.data) |-> [j \in 1..Len(t.data[i]) |-> 1]]]

\* --------------------------------------------- collate_neel_c4_tokenized
\* Every record of b has the key "tokens".
IsNeelBatch(b) == \A i \in 1..Len(b) : "tokens" \in DOMAIN b[i]

\* i["tokens"] of a record without that key raises KeyError.
collate_neel_c4_tokenized(b) ==
    IF ~IsNeelBatch(b) THEN Raise("KeyError")
    ELSE LET tokens == [i \in 1..Len(b) |-> b[i].tokens]
             tokenized == TorchTensor(tokens)
         IN IF IsError(tokenized) THEN Raise(tokenized.error)
            ELSE Return(<<tokenized, OnesLike(tokenized)>>)

\* ------------------------------------------------------------ collate_pile
\* The tokenizer argument of collate_pile: a word-level encoder with its own pad
\* id and padding side.  A text is a sequence of words (numbers); word w encodes
\* to id w + 10.  What a tokenizer does with an empty list of texts is its own
\* affair: it returns empty tensors or it raises.
Tokenizers ==
    [pad_token_id : {0, 9}, padding_side : {"right", "left"},
     empty_batch : {"returns", "raises"}]

Encode(text) == [j \in 1..Len(text) |-> text[j] + 10]

Truncate(ids, truncation, max_length) ==
    IF truncation /\ Len(ids) > max_length THEN SubSeq(ids, 1, max_length) ELSE ids

Pad(tok, ids, L, real) ==
    LET fill == [j \in 1..(L - Len(ids)) |-> IF real THEN tok.pad_token_id ELSE 0]
        body == [j \in 1..Len(ids) |-> IF real THEN ids[j] ELSE 1]
    IN IF tok.padding_side = "right" THEN body \o fill ELSE fill \o body

\* tokenizer(texts, return_tensors="pt", padding=..., truncation=..., max_length=...)
TokenizerCall(tok, texts, padding, truncation, max_length) ==
    LET enc == [i \in 1..Len(texts) |-> Truncate(Encode(texts[i]), truncation, max_length)]
        L == IF enc = <<>> THEN 0 ELSE MaxOf({Len(enc[i]) : i \in 1..Len(enc)})
        ids == IF padding THEN [i \in 1..Len(enc) |-> Pad(tok, enc[i], L, TRUE)] ELSE enc
        att == IF padding THEN [i \in 1..Len(enc) |-> Pad(tok, enc[i], L, FALSE)]
               ELSE [i \in 1..Len(enc) |-> [j \in 1..Len(enc[i]) |-> 1]]
    IN IF texts = <<>> /\ tok.empty_batch = "raises" THEN Raise("TokenizerError")
       ELSE Return([input_ids |-> TorchTensor(ids), attention_mask |-> TorchTensor(att)])

\* The call collate_pile makes, mask and ids returned in the wrong order (faulty variant).
PileReturnSwapped(tokenized) == Return(<<tokenized.attention_mask, tokenized.input_ids>>)

\* return tokenized.input_ids, tokenized.attention_mask
PileReturn(tokenized) == Return(<<tokenized.input_ids, tokenized.attention_mask>>)

\* Every record of b has the key "text"; the empty batch has no record without.
IsPileBatch(b) == \A i \in 1..Len(b) : "text" \in DOMAIN b[i]

\* The arguments of the single tokenizer call of collate_pile.
PileCall(b) ==
    [texts |-> [i \in 1..Len(b) |-> b[i].text],
     return_tensors |-> "pt", padding |-> TRUE, truncation |-> TRUE,
     max_length |-> MaxLength]

\* The tokenizer invocations collate_pile makes, in order: none when
\* item["text"] raises KeyError, else one, for the empty batch too.
PileTokenizerCalls(b) == IF IsPileBatch(b) THEN <<PileCall(b)>> ELSE <<>>

\* An exception of the tokenizer passes through collate_pile.
collate_pile(b, tok) ==
    IF ~IsPileBatch(b) THEN Raise("KeyError")
    ELSE LET c == PileCall(b)
             tokenized == TokenizerCall(tok, c.texts, c.padding, c.truncation, c.max_length)
         IN IF tokenized.raised # "none" THEN tokenized
            ELSE PileReturn(tokenized.value)

\* ------------------------------------------------- the collators, called
Vocab == 1..MaxToken

NeelBatches == SeqsUpTo([tokens : SeqsUpTo(Vocab, MaxLen)], MaxBatch)

PileBatches == SeqsUpTo([text : SeqsUpTo(Vocab, MaxLen)], MaxBatch)

LoaderUnused ==
    /\ cfg = <<>> /\ hub = <<>> /\ pc = "unused" /\ error = "none"
    /\ run = 1 /\ prev_out = <<>> /\ rng = <<>>
    /\ dataset_iter = <<>> /\ iteration_end = <<>> /\ index_queues = <<>>
    /\ data_queue = <<>> /\ task_info = <<>> /\ send_idx = 0 /\ rcvd_idx = 0
    /\ workers_status = <<>> /\ worker_cycle = 0 /\ out = <<>> /\ out_worker = <<>>

DefaultTokenizer == [pad_token_id |-> 0, padding_side |-> "right", empty_batch |-> "returns"]

\* The arguments of the call to come: a batch of records of either kind (the
\* empty batch is of both) and a tokenizer.
InitCollate ==
    /\ fn = "none" /\ tokenizer_calls = <<>> /\ returned = <<>>
    /\ \/ batch \in NeelBatches /\ tokenizer = DefaultTokenizer
       \/ batch \in PileBatches /\ tokenizer \in Tokenizers
    /\ LoaderUnused

CallCollateNeelC4Tokenized ==
    /\ fn = "none"
    /\ fn' = "collate_neel_c4_tokenized"
    /\ returned' = collate_neel_c4_tokenized(batch)
    /\ UNCHANGED <<batch, tokenizer, tokenizer_calls, loader_vars>>

CallCollatePile ==
    /\ fn = "none"
    /\ fn' = "collate_pile"
    /\ tokenizer_calls' = PileTokenizerCalls(batch)
    /\ returned' = collate_pile(batch, tokenizer)
    /\ UNCHANGED <<batch, tokenizer, loader_vars>>

NextCollate == CallCollateNeelC4Tokenized \/ CallCollatePile

SpecCollate == InitCollate /\ [][NextCollate]_vars

\* ------------------------------------------------------ create_dataloader
\* The one dataset the hub knows, and its one split.
KnownDataset == "NeelNanda/c4-tokenized-2b"

KnownSplit == "train"

DatasetNames == {KnownDataset, "no/such-dataset"}

Splits == {KnownSplit, "no-such-split"}

Configs ==
    [dataset_name : DatasetNames, dataset_split : Splits,
     batch_size : (-1)..MaxBatch, shuffle_buffer_size : 1..MaxBuf,
     random_seed : {DefaultSeed}, num_workers : 0..MaxWorkers]

\* Record k of the stream; the stream numbers its records 1, 2, ... in order.
StreamRecord(k) == [tokens |-> <<k>>]

RecordId(r) == r.tokens[1]

SumSeq(s) == LET RECURSIVE Sum(_)
                 Sum(t) == IF t = <<>> THEN 0 ELSE Head(t) + Sum(Tail(t))
             IN Sum(s)

\* The shards of a stream whose shards have the lengths lens.
ShardsOf(lens) ==
    [k \in 1..Len(lens) |->
        [j \in 1..lens[k] |-> StreamRecord(SumSeq(SubSeq(lens, 1, k - 1)) + j)]]

\* The streams: an empty one, and those of up to MaxShards non-empty shards.
Hubs ==
    {ShardsOf(lens) : lens \in
        {<<0>>} \cup {l \in UNION {[1..n -> 1..MaxRecords] : n \in 1..MaxShards} :
                        SumSeq(l) <= MaxRecords}}

\* The records of the stream in the order the stream produces them.
StreamOrder == Concat(hub)

\* load_dataset(dataset_name, streaming=True, split=dataset_split)
LoadDataset(name, split) ==
    IF name # KnownDataset THEN Raise("DatasetNotFoundError")
    ELSE IF split # KnownSplit THEN Raise("ValueError")
    ELSE Return(hub)

\* A DataLoader that takes any batch_size (faulty variant).
BatchSizeAcceptedUnchecked(batch_size) == TRUE

\* DataLoader(batch_size=batch_size): the BatchSampler it builds wants a positive size.
BatchSizeAccepted(batch_size) == batch_size > 0

\* A DataLoader left at its default batch_size of 1 (faulty variant).
LoaderBatchSizeDefault(c) == 1

\* DataLoader(..., batch_size=batch_size, ...)
LoaderBatchSize(c) == c.batch_size

\* A generator seeded anew for every loader (faulty variant).
ShuffleSeedPerLoader(c) == c.random_seed + run

\* dataset.shuffle(seed=random_seed, ...)
ShuffleSeed(c) == c.random_seed

\* A buffer one record larger than asked for (faulty variant).
BufferSizeOffByOne(c) == c.shuffle_buffer_size + 1

\* A buffer of one record whatever was asked for (faulty variant).
BufferSizeIgnored(c) == 1

\* dataset.shuffle(..., buffer_size=shuffle_buffer_size)
BufferSize(c) == c.shuffle_buffer_size

\* ------------------------------------------------- the seeded generator
\* The generator is a function of its seed that the model does not compute: what
\* it yields is chosen when first drawn and is the same at every later draw.
\*   shards: the permutation of the shard order;
\*   indices: the buffer indices drawn, in order;
\*   perms[d, n]: the final shuffle of a buffer of n records, d = 1 after an
\*   index was drawn and 0 before.
MemoSeeds == DefaultSeed..(DefaultSeed + 2)

Perms(n) == {p \in [1..n -> 1..n] : \A i, j \in 1..n : i # j => p[i] # p[j]}

FreshGenerator ==
    [shards |-> <<>>, indices |-> <<>>,
     perms |-> [key \in (0..1) \X (0..(MaxBuf + 1)) |-> <<>>]]

Generator == rng[ShuffleSeed(cfg)]

ShardPermChoices(g, n) == IF g.shards # <<>> THEN {g.shards} ELSE Perms(n)

IndexChoices(g, k, B) == IF k <= Len(g.indices) THEN {g.indices[k]} ELSE 0..(B - 1)

WithIndex(g, k, i) ==
    IF k <= Len(g.indices) THEN g ELSE [g EXCEPT !.indices = Append(@, i)]

PermChoices(g, key) == IF g.perms[key] # <<>> THEN {g.perms[key]} ELSE Perms(key[2])

\* ------------------------------------------------------- worker sharding
\* Every worker iterates every shard (faulty variant).
ShardPositionsUnsplit(w, W, n) == [k \in 1..n |-> k]

\* The positions, in the shuffled shard order, that worker w of W iterates: all of
\* them in the main process (W = 0), else w+1, w+1+W, ...
ShardPositions(w, W, n) ==
    IF W = 0 THEN [k \in 1..n |-> k]
    ELSE SelectSeq([k \in 1..n |-> k], LAMBDA k : (k - 1) % W = w)

\* The shard (its index in the hub) at each position worker w iterates.
WorkerShards(w) ==
    LET pos == ShardPositions(w, cfg.num_workers, Len(hub))
    IN [k \in 1..Len(pos) |-> Generator.shards[pos[k]]]

\* The records worker w's shuffle buffer reads, in order.
Source(w) ==
    LET sh == WorkerShards(w) IN Concat([k \in 1..Len(sh) |-> hub[sh[k]]])

\* --------------------------------------- the buffer-shuffled iterator
\*   pos      records read from the source
\*   mem      the shuffle buffer (mem_buffer)
\*   held     <<i, x>> while suspended at "yield mem_buffer[i]" with x read
\*   draws    indices drawn so far
\*   draining TRUE once the source ended and the buffer was shuffled
\*   drained  records yielded from the shuffled buffer
\*   ended, data: the batch fetcher's flag and the batch it is filling
FreshIterator ==
    [pos |-> 0, mem |-> <<>>, held |-> <<>>, draws |-> 0, draining |-> FALSE,
     drained |-> 0, ended |-> FALSE, data |-> <<>>]

\* Records the iterator has yielded.
Emitted(f) == f.draws + f.drained

\* mem_buffer[i] = x, on resuming after a yield.
Resume(f) ==
    IF f.held = <<>> THEN f
    ELSE [f EXCEPT !.mem = [@ EXCEPT ![f.held[1] + 1] = f.held[2]], !.held = <<>>]

\* One next() of the shuffled iterator over src with buffer size B and generator
\* g: the set of [f, g, item], item <<x>> for a record and <<>> for StopIteration.
ShuffleNext(f0, src, B, g) ==
    LET f == Resume(f0)
        room == B - Len(f.mem)
        left == Len(src) - f.pos
    IN IF f.draining THEN
           IF f.drained < Len(f.mem)
           THEN {[f |-> [f EXCEPT !.drained = @ + 1], g |-> g,
                  item |-> <<f.mem[f.drained + 1]>>]}
           ELSE {[f |-> f, g |-> g, item |-> <<>>]}
       ELSE IF left > room THEN
           \* fill the buffer, read one more record, yield a drawn slot
           LET mem == f.mem \o SubSeq(src, f.pos + 1, f.pos + room)
               x == src[f.pos + room + 1]
           IN {[f |-> [f EXCEPT !.mem = mem, !.pos = f.pos + room + 1,
                                !.draws = @ + 1, !.held = <<i, x>>],
                g |-> WithIndex(g, f.draws + 1, i),
                item |-> <<mem[i + 1]>>] : i \in IndexChoices(g, f.draws + 1, B)}
       ELSE
           \* the source ends: rng.shuffle(mem_buffer), then yield from it
           LET mem == f.mem \o SubSeq(src, f.pos + 1, Len(src))
               key == <<IF f.draws > 0 THEN 1 ELSE 0, Len(mem)>>
           IN {[f |-> [f EXCEPT !.mem = [k \in 1..Len(mem) |-> mem[p[k]]],
                                !.pos = Len(src), !.draining = TRUE,
                                !.drained = IF mem = <<>> THEN 0 ELSE 1],
                g |-> [g EXCEPT !.perms[key] = p],
                item |-> IF mem = <<>> THEN <<>> ELSE <<mem[p[1]]>>]
               : p \in PermChoices(g, key)}

\* ------------------------------------------------ the batch fetcher
\* One step of _IterableDatasetFetcher.fetch: the set of [f, g, result] where
\* result.kind is "more" (batch not full yet), "batch" (collated, in
\* result.data) or "stop" (StopIteration).
FetchStep(f, src, c, g) ==
    IF f.ended THEN {[f |-> f, g |-> g, result |-> [kind |-> "stop", data |-> <<>>]]}
    ELSE {LET data == f.data \o o.item
          IN IF o.item # <<>> /\ Len(data) # LoaderBatchSize(c)
             THEN [f |-> [o.f EXCEPT !.data = data], g |-> o.g,
                   result |-> [kind |-> "more", data |-> <<>>]]
             ELSE IF data = <<>>
             THEN [f |-> [o.f EXCEPT !.ended = TRUE], g |-> o.g,
                   result |-> [kind |-> "stop", data |-> <<>>]]
             ELSE [f |-> [o.f EXCEPT !.data = <<>>, !.ended = (o.item = <<>>)],
                   g |-> o.g,
                   result |-> [kind |-> "batch",
                               data |-> collate_neel_c4_tokenized(data).value]]
          : o \in ShuffleNext(f, src, BufferSize(c), g)}

\* ------------------------------------------------- the DataLoader iterator
\* Ids of the processes that iterate the dataset: the workers 0..W-1, or the main
\* process itself (as 0) when num_workers = 0.
IterIds(W) == IF W = 0 THEN {0} ELSE 0..(W - 1)

\* _try_put_index: send the next index to the next active worker of the cycle.
\* m is [index_queues, task_info, send_idx, worker_cycle].
TryPutIndex(m, status, W) ==
    LET offs == {k \in 0..(W - 1) : status[(m.worker_cycle + k) % W]}
    IN IF offs = {} THEN m
       ELSE LET k == CHOOSE x \in offs : \A y \in offs : x <= y
                w == (m.worker_cycle + k) % W
            IN [index_queues |-> [m.index_queues EXCEPT ![w] = Append(@, m.send_idx)],
                task_info |-> Append(m.task_info,
                                     [worker |-> w, state |-> "sent", data |-> <<>>]),
                send_idx |-> m.send_idx + 1,
                worker_cycle |-> (w + 1) % W]

RECURSIVE Prime(_, _, _, _)
Prime(n, m, status, W) ==
    IF n = 0 THEN m ELSE Prime(n - 1, TryPutIndex(m, status, W), status, W)

\* The head of _next_data's loop: advance rcvd_idx past the tasks of workers that
\* ended without answering them.  r is [rcvd_idx, task_info].
RECURSIVE SkipEnded(_, _, _)
SkipEnded(r, sidx, status) ==
    IF r.rcvd_idx < sidx
       /\ r.task_info[r.rcvd_idx + 1].state = "sent"
       /\ ~status[r.task_info[r.rcvd_idx + 1].worker]
    THEN SkipEnded([rcvd_idx |-> r.rcvd_idx + 1,
                    task_info |-> [r.task_info EXCEPT ![r.rcvd_idx + 1].state = "deleted"]],
                   sidx, status)
    ELSE r

Skipped == SkipEnded([rcvd_idx |-> rcvd_idx, task_info |-> task_info],
                     send_idx, workers_status)

MainState(ti) ==
    [index_queues |-> index_queues, task_info |-> ti, send_idx |-> send_idx,
     worker_cycle |-> worker_cycle]

\* Messages a worker puts on the data queue.
BatchMessage(idx, w, data) == [idx |-> idx, worker |-> w, stop |-> FALSE, data |-> data]

\* A worker that ends without telling the main process (faulty variant).
StopMessageLost(idx, w) == <<>>

\* (idx, _IterableDatasetStopIteration(worker_id)), as the messages to put.
StopMessage(idx, w) == <<[idx |-> idx, worker |-> w, stop |-> TRUE, data |-> <<>>]>>

\* if idx != self._rcvd_idx: store the out-of-order batch
InOrder(idx, rcvd) == idx = rcvd

\* ------------------------------------------------------------- the loader
NotIterating ==
    /\ dataset_iter = <<>> /\ iteration_end = <<>> /\ index_queues = <<>>
    /\ data_queue = <<>> /\ task_info = <<>> /\ send_idx = 0 /\ rcvd_idx = 0
    /\ workers_status = <<>> /\ worker_cycle = 0 /\ out = <<>> /\ out_worker = <<>>

Init ==
    /\ fn = "none" /\ batch = <<>> /\ tokenizer = DefaultTokenizer
    /\ tokenizer_calls = <<>> /\ returned = <<>>
    /\ cfg \in Configs
    /\ hub \in Hubs
    /\ pc = "init" /\ error = "none" /\ run = 1 /\ prev_out = <<>>
    /\ rng = [s \in MemoSeeds |-> FreshGenerator]
    /\ NotIterating

iter_vars == <<dataset_iter, iteration_end, index_queues, data_queue, task_info,
               send_idx, rcvd_idx, workers_status, worker_cycle, out, out_worker>>

\* create_dataloader raises: load_dataset or the DataLoader constructor failed.
CreateDataloaderRaises ==
    /\ pc = "init"
    /\ LET ds == LoadDataset(cfg.dataset_name, cfg.dataset_split)
       IN \/ /\ ds.raised # "none"
             /\ error' = ds.raised
          \/ /\ ds.raised = "none"
             /\ ~BatchSizeAccepted(cfg.batch_size)
             /\ error' = "ValueError"
    /\ pc' = "error"
    /\ UNCHANGED <<collate_vars, cfg, hub, run, prev_out, rng, iter_vars>>

\* create_dataloader returns the DataLoader over the shuffled dataset.
CreateDataloaderReturns ==
    /\ pc = "init"
    /\ LoadDataset(cfg.dataset_name, cfg.dataset_split).raised = "none"
    /\ BatchSizeAccepted(cfg.batch_size)
    /\ \E p \in ShardPermChoices(Generator, Len(hub)) :
          rng' = [rng EXCEPT ![ShuffleSeed(cfg)].shards = p]
    /\ pc' = "created"
    /\ UNCHANGED <<collate_vars, cfg, hub, error, run, prev_out, iter_vars>>

\* iter(dataloader): start the workers and send them the first indices.
IterStart ==
    /\ pc = "created"
    /\ pc' = "iterating"
    /\ LET W == cfg.num_workers
           status == [w \in IterIds(W) |-> TRUE]
           m == Prime(PrefetchFactor * W,
                      [index_queues |-> [w \in IterIds(W) |-> <<>>],
                       task_info |-> <<>>, send_idx |-> 0, worker_cycle |-> 0],
                      status, W)
       IN /\ dataset_iter' = [w \in IterIds(W) |-> FreshIterator]
          /\ iteration_end' = [w \in IterIds(W) |-> FALSE]
          /\ workers_status' = status
          /\ index_queues' = m.index_queues
          /\ task_info' = m.task_info
          /\ send_idx' = m.send_idx
          /\ worker_cycle' = m.worker_cycle
    /\ UNCHANGED <<collate_vars, cfg, hub, error, run, prev_out, rng,
                   data_queue, rcvd_idx, out, out_worker>>

\* num_workers = 0: the consumer's next() runs the fetcher in the main process.
SingleFetch ==
    /\ pc = "iterating" /\ cfg.num_workers = 0
    /\ \E o \in FetchStep(dataset_iter[0], Source(0), cfg, Generator) :
          /\ dataset_iter' = [dataset_iter EXCEPT ![0] = o.f]
          /\ rng' = [rng EXCEPT ![ShuffleSeed(cfg)] = o.g]
          /\ \/ /\ o.result.kind = "more"
                /\ UNCHANGED <<pc, out, out_worker>>
             \/ /\ o.result.kind = "batch"
                /\ out' = Append(out, o.result.data)
                /\ out_worker' = Append(out_worker, 0)
                /\ UNCHANGED pc
             \/ /\ o.result.kind = "stop"
                /\ pc' = "exhausted"
                /\ UNCHANGED <<out, out_worker>>
    /\ UNCHANGED <<collate_vars, cfg, hub, error, run, prev_out, iteration_end,
                   index_queues, data_queue, task_info, send_idx, rcvd_idx,
                   workers_status, worker_cycle>>

\* Worker w, holding an index, takes one more record for its batch; a full batch,
\* or the end of its stream, answers the index.
WorkerFetch(w) ==
    /\ pc = "iterating" /\ cfg.num_workers > 0 /\ w \in IterIds(cfg.num_workers)
    /\ index_queues[w] # <<>> /\ ~iteration_end[w]
    /\ \E o \in FetchStep(dataset_iter[w], Source(w), cfg, Generator) :
          LET idx == Head(index_queues[w])
          IN /\ dataset_iter' = [dataset_iter EXCEPT ![w] = o.f]
             /\ rng' = [rng EXCEPT ![ShuffleSeed(cfg)] = o.g]
             /\ \/ /\ o.result.kind = "more"
                   /\ UNCHANGED <<index_queues, data_queue, iteration_end>>
                \/ /\ o.result.kind = "batch"
                   /\ data_queue' = Append(data_queue, BatchMessage(idx, w, o.result.data))
                   /\ index_queues' = [index_queues EXCEPT ![w] = Tail(@)]
                   /\ UNCHANGED iteration_end
                \/ /\ o.result.kind = "stop"
                   /\ data_queue' = data_queue \o StopMessage(idx, w)
                   /\ index_queues' = [index_queues EXCEPT ![w] = Tail(@)]
                   /\ iteration_end' = [iteration_end EXCEPT ![w] = TRUE]
    /\ UNCHANGED <<collate_vars, cfg, hub, pc, error, run, prev_out, task_info,
                   send_idx, rcvd_idx, workers_status, worker_cycle, out, out_worker>>

\* Worker w, its iteration ended, drops an index sent to it meanwhile.
WorkerSkip(w) ==
    /\ pc = "iterating" /\ cfg.num_workers > 0 /\ w \in IterIds(cfg.num_workers)
    /\ index_queues[w] # <<>> /\ iteration_end[w]
    /\ index_queues' = [index_queues EXCEPT ![w] = Tail(@)]
    /\ UNCHANGED <<collate_vars, cfg, hub, pc, error, run, prev_out, rng, dataset_iter,
                   iteration_end, data_queue, task_info, send_idx, rcvd_idx,
                   workers_status, worker_cycle, out, out_worker>>

\* _process_data: hand a batch to the consumer and send one more index.
Deliver(ti, cur, w, data, status, queue) ==
    LET m == TryPutIndex(MainState(ti), status, cfg.num_workers)
    IN /\ out' = Append(out, data)
       /\ out_worker' = Append(out_worker, w)
       /\ rcvd_idx' = cur + 1
       /\ index_queues' = m.index_queues
       /\ task_info' = m.task_info
       /\ send_idx' = m.send_idx
       /\ worker_cycle' = m.worker_cycle
       /\ workers_status' = status
       /\ data_queue' = queue

\* No task is left that a worker could still answer: StopIteration.
MainStop ==
    /\ pc = "iterating" /\ cfg.num_workers > 0
    /\ Skipped.rcvd_idx = send_idx
    /\ pc' = "exhausted"
    /\ rcvd_idx' = Skipped.rcvd_idx
    /\ task_info' = Skipped.task_info
    /\ UNCHANGED <<collate_vars, cfg, hub, error, run, prev_out, rng, dataset_iter,
                   iteration_end, index_queues, data_queue, send_idx,
                   workers_status, worker_cycle, out, out_worker>>

\* The batch of the task awaited was received earlier, out of order.
MainTakeStored ==
    /\ pc = "iterating" /\ cfg.num_workers > 0
    /\ Skipped.rcvd_idx < send_idx
    /\ LET cur == Skipped.rcvd_idx
           info == Skipped.task_info[cur + 1]
       IN /\ info.state = "data"
          /\ Deliver([Skipped.task_info EXCEPT ![cur + 1].state = "deleted",
                                               ![cur + 1].data = <<>>],
                     cur, info.worker, info.data, workers_status, data_queue)
    /\ UNCHANGED <<collate_vars, cfg, hub, pc, error, run, prev_out, rng,
                   dataset_iter, iteration_end>>

\* The main process takes a message from the data queue.
MainGet ==
    /\ pc = "iterating" /\ cfg.num_workers > 0
    /\ Skipped.rcvd_idx < send_idx
    /\ Skipped.task_info[Skipped.rcvd_idx + 1].state # "data"
    /\ data_queue # <<>>
    /\ LET cur == Skipped.rcvd_idx
           msg == Head(data_queue)
           status == [workers_status EXCEPT ![msg.worker] = FALSE]
           m == TryPutIndex(MainState(Skipped.task_info), status, cfg.num_workers)
       IN \/ /\ msg.stop
             /\ workers_status' = status
             /\ index_queues' = m.index_queues
             /\ task_info' = m.task_info
             /\ send_idx' = m.send_idx
             /\ worker_cycle' = m.worker_cycle
             /\ rcvd_idx' = cur
             /\ data_queue' = Tail(data_queue)
             /\ UNCHANGED <<out, out_worker>>
          \/ /\ ~msg.stop /\ ~InOrder(msg.idx, cur)
             /\ task_info' = [Skipped.task_info EXCEPT ![msg.idx + 1].state = "data",
                                                       ![msg.idx + 1].data = msg.data]
             /\ rcvd_idx' = cur
             /\ data_queue' = Tail(data_queue)
             /\ UNCHANGED <<index_queues, send_idx, workers_status, worker_cycle,
                            out, out_worker>>
          \/ /\ ~msg.stop /\ InOrder(msg.idx, cur)
             /\ Deliver([Skipped.task_info EXCEPT ![msg.idx + 1].state = "deleted"],
                        cur, msg.worker, msg.data, workers_status, Tail(data_queue))
    /\ UNCHANGED <<collate_vars, cfg, hub, pc, error, run, prev_out, rng,
                   dataset_iter, iteration_end>>

\* A second loader is created with the same arguments over the same stream.
Rerun ==
    /\ pc = "exhausted" /\ run = 1
    /\ run' = 2
    /\ prev_out' = out
    /\ pc' = "init"
    /\ dataset_iter' = <<>> /\ iteration_end' = <<>> /\ index_queues' = <<>>
    /\ data_queue' = <<>> /\ task_info' = <<>> /\ send_idx' = 0 /\ rcvd_idx' = 0
    /\ workers_status' = <<>> /\ worker_cycle' = 0 /\ out' = <<>> /\ out_worker' = <<>>
    /\ UNCHANGED <<collate_vars, cfg, hub, error, rng>>

MainProcess ==
    \/ CreateDataloaderRaises
    \/ CreateDataloaderReturns
    \/ IterStart
    \/ SingleFetch
    \/ MainStop
    \/ MainTakeStored
    \/ MainGet

Worker(w) == WorkerFetch(w) \/ WorkerSkip(w)

Next == MainProcess \/ \E w \in 0..(MaxWorkers - 1) : Worker(w)

Spec == Init /\ [][Next]_vars

\* One loader is consumed, then a second one with the same arguments.
NextTwoRuns == Next \/ Rerun

SpecTwoRuns == Init /\ [][NextTwoRuns]_vars

\* The consumer keeps pulling and the workers are running processes: while some
\* step of the loader is possible, one is eventually taken.
FairSpec == Spec /\ WF_vars(Next)

\* --------------------------------------------------------- claims C1, C2, C8
SameLength(b) == \A i \in 1..Len(b) : Len(b[i].tokens) = Len(b[1].tokens)

\* collate_neel_c4_tokenized was called on records that have a "tokens" field.
NeelCalled == fn = "collate_neel_c4_tokenized" /\ IsNeelBatch(batch)

\* C1: for a non-empty batch whose "tokens" all have one length L,
\* collate_neel_c4_tokenized returns (ids, mask): ids of shape (len(batch), L)
\* with ids[i][j] = batch[i]["tokens"][j], mask of the same shape and all ones.
C1_NeelStacksVerbatim ==
    (NeelCalled /\ batch # <<>> /\ SameLength(batch)) =>
        /\ returned.raised = "none"
        /\ Len(returned.value) = 2
        /\ LET ids == returned.value[1]
               mask == returned.value[2]
               L == Len(batch[1].tokens)
           IN /\ ids.shape = <<Len(batch), L>>
              /\ mask.shape = ids.shape
              /\ Len(ids.data) = Len(batch) /\ Len(mask.data) = Len(batch)
              /\ \A i \in 1..Len(batch) :
                    /\ Len(ids.data[i]) = L /\ Len(mask.data[i]) = L
                    /\ \A j \in 1..L :
                          ids.data[i][j] = batch[i].tokens[j] /\ mask.data[i][j] = 1

C1_Witness ==
    /\ NeelCalled /\ Len(batch) = 2 /\ SameLength(batch)
    /\ Len(batch[1].tokens) = 2 /\ batch[1].tokens # batch[2].tokens
    /\ returned.raised = "none"

\* C8: when two records of the batch have "tokens" of different lengths,
\* collate_neel_c4_tokenized raises and returns no (ids, mask) pair.
C8_RaggedBatchRaises ==
    (NeelCalled /\ ~SameLength(batch)) =>
        returned.raised = "ValueError" /\ returned.value = <<>>

\* What the code does with a ragged batch.  After a non-empty first record it
\* raises ValueError; after an empty first record it returns two tensors with
\* no elements, of shape (len(batch), 0), and the tokens of the other records
\* are dropped.
RaggedBatchOutcome ==
    (NeelCalled /\ ~SameLength(batch)) =>
        IF batch[1].tokens # <<>>
        THEN returned.raised = "ValueError" /\ returned.value = <<>>
        ELSE /\ returned.raised = "none"
             /\ returned.value[1].shape = <<Len(batch), 0>>
             /\ returned.value[2].shape = <<Len(batch), 0>>
             /\ \A i \in 1..Len(batch) : returned.value[1].data[i] = <<>>

RaggedBatchRaised ==
    /\ NeelCalled /\ Len(batch) = 2
    /\ Len(batch[1].tokens) = 2 /\ Len(batch[2].tokens) = 1
    /\ returned.raised = "ValueError"

RaggedBatchReturned ==
    /\ NeelCalled /\ Len(batch) = 2
    /\ batch[1].tokens = <<>> /\ batch[2].tokens = <<1>>
    /\ returned.raised = "none"

\* C2: for every batch of records with a "text" field, the empty batch
\* included, collate_pile calls the tokenizer exactly once, with the records'
\* "text" fields in batch order, padding and truncation enabled and
\* max_length = 512, and returns the pair (input ids, attention mask) the
\* tokenizer returned; when the tokenizer raises instead, so does collate_pile.
C2_PileDelegates ==
    (fn = "collate_pile" /\ IsPileBatch(batch)) =>
        /\ Len(tokenizer_calls) = 1
        /\ LET c == tokenizer_calls[1]
               t == TokenizerCall(tokenizer, c.texts, c.padding, c.truncation, c.max_length)
           IN /\ Len(c.texts) = Len(batch)
              /\ \A i \in 1..Len(batch) : c.texts[i] = batch[i].text
              /\ c.padding = TRUE /\ c.truncation = TRUE /\ c.max_length = 512
              /\ IF t.raised = "none"
                 THEN /\ returned.raised = "none"
                      /\ returned.value = <<t.value.input_ids, t.value.attention_mask>>
                 ELSE returned = Raise(t.raised)

\* The empty batch goes to the tokenizer like any other.
PileEmptyBatchDelegated ==
    /\ fn = "collate_pile" /\ batch = <<>>
    /\ tokenizer_calls = <<PileCall(<<>>)>>
    /\ returned.raised = "none" /\ returned.value[1].shape = <<0>>

PileEmptyBatchRaised ==
    /\ fn = "collate_pile" /\ batch = <<>>
    /\ tokenizer_calls = <<PileCall(<<>>)>>
    /\ returned = Raise("TokenizerError")

\* A record without the key the collator reads raises KeyError.
MissingKeyRaises ==
    /\ (fn = "collate_pile" /\ ~IsPileBatch(batch)) =>
            returned = Raise("KeyError") /\ tokenizer_calls = <<>>
    /\ (fn = "collate_neel_c4_tokenized" /\ ~IsNeelBatch(batch)) =>
            returned = Raise("KeyError")

C2_Witness ==
    /\ fn = "collate_pile" /\ IsPileBatch(batch) /\ Len(batch) = 2
    /\ Len(batch[1].text) = 1 /\ Len(batch[2].text) = 2
    /\ tokenizer.padding_side = "right"
    /\ returned.value[1].data[1][2] = tokenizer.pad_token_id
    /\ returned.value[2].data = <<(<<1, 0>>), (<<1, 1>>)>>

\* ------------------------------------------------------ claims C3 .. C10
\* Records of a delivered batch (the rows of its ids tensor), as record ids.
BatchIds(b) == [j \in 1..Len(b[1].data) |-> b[1].data[j][1]]

\* The record ids the consumer has received, in order.
Delivered == Concat([i \in 1..Len(out) |-> BatchIds(out[i])])

StreamIds == [k \in 1..Len(StreamOrder) |-> RecordId(StreamOrder[k])]

Short(i) == Len(BatchIds(out[i])) < cfg.batch_size

\* C3: a second loader with the same random_seed, shuffle_buffer_size and other
\* arguments over the same stream yields the same batches, batch by batch.
C3_SameSeedSameBatches ==
    (run = 2) => /\ IsPrefix(out, prev_out)
                 /\ (pc = "exhausted" => out = prev_out)

C3_Witness ==
    /\ run = 2 /\ pc = "exhausted" /\ cfg.num_workers = 2
    /\ cfg.shuffle_buffer_size = 2 /\ Len(out) >= 2
    /\ Delivered # StreamIds

\* C4 as stated: every batch holds at most batch_size records and a batch
\* holding fewer is the last one the loader yields.
C4_ShortBatchOnlyLast ==
    \A i \in 1..Len(out) :
        /\ Len(BatchIds(out[i])) <= cfg.batch_size
        /\ (Short(i) => i = Len(out))

\* C4 amended: every batch holds at most batch_size records, and a batch holding
\* fewer is the last batch of the worker that built it, built when that worker's
\* share of the stream was exhausted (with num_workers = 0: the loader's last).
C4_ShortBatchLastOfItsWorker ==
    \A i \in 1..Len(out) :
        /\ Len(BatchIds(out[i])) >= 1
        /\ Len(BatchIds(out[i])) <= cfg.batch_size
        /\ Short(i) =>
              /\ dataset_iter[out_worker[i]].ended
              /\ dataset_iter[out_worker[i]].pos = Len(Source(out_worker[i]))
              /\ \A j \in (i + 1)..Len(out) : out_worker[j] # out_worker[i]
              /\ (cfg.num_workers = 0 => i = Len(out))

C4_Witness ==
    /\ cfg.num_workers = 2 /\ cfg.batch_size = 2 /\ Len(out) = 2
    /\ Short(1) /\ ~Short(2)

\* C5: over a finite stream, a consumer that keeps pulling batches eventually
\* gets the end of the iteration, whatever the number of workers.
C5_LoaderTerminates == (pc = "created") ~> (pc = "exhausted")

C5_Witness ==
    /\ pc = "exhausted" /\ cfg.num_workers = 2 /\ Len(out) >= 2
    /\ \E i \in 1..Len(task_info) : task_info[i].state = "deleted"
    /\ \E w \in DOMAIN workers_status : ~workers_status[w]

\* C6 as stated: when a record has been emitted by a shuffled stream, at least
\* shuffle_buffer_size records have been read from the underlying stream.
C6_NoEmissionBeforeBufferFull ==
    \A w \in DOMAIN dataset_iter :
        Emitted(dataset_iter[w]) > 0 => dataset_iter[w].pos >= cfg.shuffle_buffer_size

\* C6 amended: when a record is emitted, the buffer holds shuffle_buffer_size
\* records, or the stream feeding the buffer is exhausted.
C6_NoEmissionBeforeBufferFullOrStreamEnd ==
    \A w \in DOMAIN dataset_iter :
        LET f == dataset_iter[w]
        IN Emitted(f) > 0 =>
              \/ /\ ~f.draining
                 /\ Len(f.mem) = cfg.shuffle_buffer_size
                 /\ f.pos > cfg.shuffle_buffer_size
              \/ /\ f.draining
                 /\ f.pos = Len(Source(w))

C6_Witness ==
    \E w \in DOMAIN dataset_iter :
        /\ Emitted(dataset_iter[w]) = 1 /\ ~dataset_iter[w].draining
        /\ cfg.shuffle_buffer_size = 2 /\ Len(dataset_iter[w].mem) = 2
        /\ dataset_iter[w].held # <<>>

\* C7 as stated: with shuffle_buffer_size = 1 the records reach the output in
\* the order in which the stream produces them.
C7_BufferOneKeepsStreamOrder ==
    (cfg.shuffle_buffer_size = 1) => IsPrefix(Delivered, StreamIds)

ShardIds(s) == [k \in 1..Len(hub[s]) |-> RecordId(hub[s][k])]

InShard(s, id) == \E k \in 1..Len(hub[s]) : RecordId(hub[s][k]) = id

\* C7 amended: with shuffle_buffer_size = 1 the records of each shard reach the
\* output in the order in which the stream produces them; the output of a
\* stream of one shard is in stream order.
C7_BufferOneKeepsShardOrder ==
    (cfg.shuffle_buffer_size = 1) =>
        /\ \A s \in 1..Len(hub) :
              IsPrefix(SelectSeq(Delivered, LAMBDA id : InShard(s, id)), ShardIds(s))
        /\ (Len(hub) = 1 => IsPrefix(Delivered, StreamIds))

C7_Witness ==
    /\ cfg.shuffle_buffer_size = 1 /\ pc = "exhausted" /\ Len(hub) = 1
    /\ cfg.num_workers = 2 /\ Delivered = <<1, 2, 3>>

ValidConfig ==
    /\ cfg.dataset_name = KnownDataset
    /\ cfg.dataset_split = KnownSplit
    /\ cfg.batch_size > 0

\* C9: create_dataloader with an unknown dataset or split, or a non-positive
\* batch_size, raises in that call: no loader exists and nothing is iterated.
C9_MisconfigurationRaisesAtCreation ==
    /\ (pc \in {"created", "iterating", "exhausted"}) => ValidConfig
    /\ (~ValidConfig /\ pc # "init") =>
          (pc = "error" /\ error # "none" /\ dataset_iter = <<>> /\ out = <<>>)

C9_Witness ==
    /\ pc = "error" /\ error = "ValueError"
    /\ cfg.dataset_name = KnownDataset /\ cfg.dataset_split = KnownSplit
    /\ cfg.batch_size = 0

\* C10: whatever the number of workers and their interleaving, no record is
\* delivered twice, and at exhaustion every record of the stream was delivered.
C10_EachRecordExactlyOnce ==
    /\ \A i, j \in 1..Len(Delivered) : i # j => Delivered[i] # Delivered[j]
    /\ (pc = "exhausted") =>
          /\ Len(Delivered) = Len(StreamIds)
          /\ \A k \in 1..Len(StreamIds) :
                \E i \in 1..Len(Delivered) : Delivered[i] = StreamIds[k]

C10_Witness ==
    /\ pc = "exhausted" /\ cfg.num_workers = 2 /\ Len(hub) = 2
    /\ Len(Delivered) = 3
    /\ \E i, j \in 1..Len(out_worker) : out_worker[i] = 0 /\ out_worker[j] = 1

=============================================================================
